---- MODULE Spec2Model ----
(***************************************************************************)
(* Student registry: the Express handlers of backend/src/server.js over    *)
(* the students table of database/init.sql.                                *)
(*                                                                         *)
(* A JSON value of a request body is a record [k, s, n]:                   *)
(*   k = "undef"  the key is absent                                        *)
(*   k = "str"    a string s that is not a decimal number                  *)
(*   k = "numstr" a string s that is the decimal form of the integer n     *)
(*   k = "num"    the integer number n                                     *)
(*   k = "frac"   the non-integer number n + 1/2                           *)
(***************************************************************************)
EXTENDS Integers, Sequences, FiniteSets, TLC

(* store  the rows of the students table                                  *)
(* seq    the next value of the sequence behind id SERIAL                  *)
(* clock  what CURRENT_TIMESTAMP and new Date() read: two statements can   *)
(*        read the same value                                              *)
(* slots  the handler invocations, each idle, suspended or answered        *)
(* nReq   the number of requests received so far                           *)
(* students  the client's list of students (React state of App)            *)
(* calls     the client's handlers awaiting a response, by invocation      *)
VARIABLES store, seq, clock, slots, nReq, students, calls

vars == <<store, seq, clock, slots, nReq, students, calls>>

(* what only the client touches *)
ui == <<students, calls>>

-----------------------------------------------------------------------------
(* Bounds of the model *)

NumSlots == 1
MaxReq == 3
MaxClock == 1

-----------------------------------------------------------------------------
(* Program constants *)

MinPasswordLen == 6
MinYear == 2000
MaxYear == 2024
SaltRounds == 10
StudentIdLimit == 20
NameLimit == 100
EmailLimit == 100
PasswordLimit == 255
DepartmentLimit == 50
BcryptHashLen == 60

-----------------------------------------------------------------------------
(* JSON values *)

Undef == [k |-> "undef", s |-> "", n |-> 0]
Str(x) == [k |-> "str", s |-> x, n |-> 0]
Num(i) == [k |-> "num", s |-> "", n |-> i]
Frac(i) == [k |-> "frac", s |-> "", n |-> i]

Digit(d) ==
    CASE d = 0 -> "0" [] d = 1 -> "1" [] d = 2 -> "2" [] d = 3 -> "3"
      [] d = 4 -> "4" [] d = 5 -> "5" [] d = 6 -> "6" [] d = 7 -> "7"
      [] d = 8 -> "8" [] d = 9 -> "9"

RECURSIVE Decimal(_)
Decimal(i) == IF i < 10 THEN Digit(i) ELSE Decimal(i \div 10) \o Digit(i % 10)

NumStr(i) == [k |-> "numstr", s |-> Decimal(i), n |-> i]

(* The e-mail addresses the model uses, and the strings it uses that are not *)
ValidEmails == {"a@x.com", "b@x.com", "c@x.com"}
IsEmail(x) == x \in ValidEmails

-----------------------------------------------------------------------------
(* Validation: studentSchema.validate(req.body), abortEarly and convert on *)

Msg(label, code) == [label |-> label, code |-> code]
Ok == Msg("", "ok")

StringBase(label, v) ==
    CASE v.k = "undef" -> Msg(label, "any.required")
      [] v.k \in {"num", "frac"} -> Msg(label, "string.base")
      [] v.s = "" -> Msg(label, "string.empty")
      [] OTHER -> Ok

CheckEmail(v) ==
    IF StringBase("email", v) # Ok THEN StringBase("email", v)
    ELSE IF ~IsEmail(v.s) THEN Msg("email", "string.email")
    ELSE Ok

PasswordTooShortOff(v) == Len(v.s) < MinPasswordLen - 1
PasswordTooShort(v) == Len(v.s) < MinPasswordLen

CheckPassword(v) ==
    IF StringBase("password", v) # Ok THEN StringBase("password", v)
    ELSE IF PasswordTooShort(v) THEN Msg("password", "string.min")
    ELSE Ok

YearTooSmallOff(n) == n <= MinYear
YearTooSmall(n) == n < MinYear
YearTooLarge(n) == n > MaxYear

CheckYear(v) ==
    CASE v.k = "undef" -> Msg("enrollment_year", "any.required")
      [] v.k = "str" -> Msg("enrollment_year", "number.base")
      [] v.k = "frac" -> Msg("enrollment_year", "number.integer")
      [] YearTooSmall(v.n) -> Msg("enrollment_year", "number.min")
      [] YearTooLarge(v.n) -> Msg("enrollment_year", "number.max")
      [] OTHER -> Ok

SchemaKeys ==
    <<"student_id", "name", "email", "password", "department", "enrollment_year">>

CheckKey(key, body) ==
    CASE key = "email" -> CheckEmail(body.email)
      [] key = "password" -> CheckPassword(body.password)
      [] key = "enrollment_year" -> CheckYear(body.enrollment_year)
      [] OTHER -> StringBase(key, body[key])

Offending(body) == {i \in 1..Len(SchemaKeys) : CheckKey(SchemaKeys[i], body) # Ok}

FirstOf(S) == CHOOSE i \in S : \A j \in S : i <= j
LastOf(S) == CHOOSE i \in S : \A j \in S : i >= j

FirstOffendingOff(body) == LastOf(Offending(body))
FirstOffending(body) == FirstOf(Offending(body))

Coerce(body) ==
    [body EXCEPT !.enrollment_year =
        IF @.k = "numstr" THEN Num(@.n) ELSE @]

(* error.details[0].message: the quoted key and what is wrong with it *)
Message(d) ==
    "\"" \o d.label \o "\"" \o
    CASE d.code = "any.required" -> " is required"
      [] d.code = "string.base" -> " must be a string"
      [] d.code = "string.empty" -> " is not allowed to be empty"
      [] d.code = "string.email" -> " must be a valid email"
      [] d.code = "string.min" ->
           " length must be at least " \o Decimal(MinPasswordLen) \o " characters long"
      [] d.code = "number.base" -> " must be a number"
      [] d.code = "number.integer" -> " must be an integer"
      [] d.code = "number.min" ->
           " must be greater than or equal to " \o Decimal(MinYear)
      [] d.code = "number.max" -> " must be less than or equal to " \o Decimal(MaxYear)
      [] OTHER -> " is not allowed"

(* {error, value} of studentSchema.validate: error is Ok or the first detail *)
Validate(body) ==
    IF Offending(body) # {}
    THEN [error |-> CheckKey(SchemaKeys[FirstOffending(body)], body), value |-> body]
    ELSE IF body.unknown # ""
    THEN [error |-> Msg(body.unknown, "object.unknown"), value |-> body]
    ELSE [error |-> Ok, value |-> Coerce(body)]

-----------------------------------------------------------------------------
(* bcrypt.hash(password, 10): a salted one-way digest of fixed length *)

Salts == {"salt1"}
NoHash == [alg |-> "", rounds |-> 0, salt |-> "", of |-> ""]
Hash(pw, salt) == [alg |-> "bcrypt", rounds |-> SaltRounds, salt |-> salt, of |-> pw]

-----------------------------------------------------------------------------
(* The students table.  A statement is given the table, the sequence and    *)
(* CURRENT_TIMESTAMP and yields [err, rows, store, seq]: err is "" or the   *)
(* SQLSTATE of the failure, rows are the RETURNING/SELECT rows.             *)

IsNull(v) == v.k = "undef"
TextOf(v) ==
    CASE v.k \in {"str", "numstr"} -> v.s
      [] v.k = "num" -> Decimal(v.n)
      [] v.k = "frac" -> Decimal(v.n) \o ".5"
      [] OTHER -> ""
IsInt(v) == v.k \in {"num", "numstr", "undef"}

PublicOff(r) == r
Public(r) ==
    [id |-> r.id, student_id |-> r.student_id, name |-> r.name, email |-> r.email,
     department |-> r.department, enrollment_year |-> r.enrollment_year,
     created_at |-> r.created_at]

Failed(code, st, sq) == [err |-> code, rows |-> <<>>, store |-> st, seq |-> sq]

TooLong(sid, name, email, dept) ==
    \/ Len(TextOf(sid)) > StudentIdLimit
    \/ Len(TextOf(name)) > NameLimit
    \/ Len(TextOf(email)) > EmailLimit
    \/ Len(TextOf(dept)) > DepartmentLimit
    \/ BcryptHashLen > PasswordLimit

InsertConflictOff(st, sid, email) ==
    \E r \in st : r.student_id = TextOf(sid)
InsertConflict(st, sid, email) ==
    \E r \in st : r.student_id = TextOf(sid) \/ r.email = TextOf(email)

NextIdOff(st, sq) ==
    IF st = {} THEN 1 ELSE 1 + CHOOSE m \in {r.id : r \in st} : \A r \in st : r.id <= m
NextId(st, sq) == sq

InsertStudent(st, sq, now, sid, name, email, hash, dept, year) ==
    LET row == [id |-> NextId(st, sq), student_id |-> TextOf(sid), name |-> TextOf(name),
                email |-> TextOf(email), password |-> hash,
                department |-> TextOf(dept), enrollment_year |-> year.n,
                created_at |-> now, updated_at |-> now]
    IN  CASE ~IsInt(year) -> Failed("22P02", st, sq)
          [] TooLong(sid, name, email, dept) -> Failed("22001", st, sq + 1)
          [] IsNull(sid) \/ IsNull(name) \/ IsNull(email) \/ IsNull(dept) \/ IsNull(year)
               -> Failed("23502", st, sq + 1)
          [] InsertConflict(st, sid, email) -> Failed("23505", st, sq + 1)
          [] OTHER -> [err |-> "", rows |-> <<Public(row)>>,
                       store |-> st \cup {row}, seq |-> sq + 1]

UpdateConflictOff(st, old, email) == FALSE
UpdateConflict(st, old, email) ==
    \E r \in st \ {old} : r.email = TextOf(email)

(* the SET clause: the four payload columns and updated_at, nothing else *)
AssignedOff(old, now, name, email, dept, year) ==
    [old EXCEPT !.name = TextOf(name), !.email = TextOf(email),
                !.enrollment_year = year.n, !.updated_at = now]
Assigned(old, now, name, email, dept, year) ==
    [old EXCEPT !.name = TextOf(name), !.email = TextOf(email),
                !.department = TextOf(dept), !.enrollment_year = year.n,
                !.updated_at = now]

(* the BEFORE UPDATE trigger: update_updated_at_column() on the new row *)
TouchOff(row, now) == [row EXCEPT !.updated_at = row.created_at]
Touch(row, now) == [row EXCEPT !.updated_at = now]

UpdateStudentOff(st, sq, now, name, email, dept, year, sid) ==
    LET match == {r \in st : r.student_id = sid}
        old == CHOOSE r \in match : TRUE
        new == [Touch(Assigned(old, now, name, email, dept, year), now)
                   EXCEPT !.password = NoHash]
    IN  CASE ~IsInt(year) -> Failed("22P02", st, sq)
          [] match = {} -> [err |-> "", rows |-> <<>>, store |-> st, seq |-> sq]
          [] TooLong(Str(sid), name, email, dept) -> Failed("22001", st, sq)
          [] IsNull(name) \/ IsNull(email) \/ IsNull(dept) \/ IsNull(year)
               -> Failed("23502", st, sq)
          [] UpdateConflict(st, old, email) -> Failed("23505", st, sq)
          [] OTHER -> [err |-> "", rows |-> <<Public(new)>>,
                       store |-> (st \ {old}) \cup {new}, seq |-> sq]
UpdateStudent(st, sq, now, name, email, dept, year, sid) ==
    LET match == {r \in st : r.student_id = sid}
        old == CHOOSE r \in match : TRUE
        new == Touch(Assigned(old, now, name, email, dept, year), now)
    IN  CASE ~IsInt(year) -> Failed("22P02", st, sq)
          [] match = {} -> [err |-> "", rows |-> <<>>, store |-> st, seq |-> sq]
          [] TooLong(Str(sid), name, email, dept) -> Failed("22001", st, sq)
          [] IsNull(name) \/ IsNull(email) \/ IsNull(dept) \/ IsNull(year)
               -> Failed("23502", st, sq)
          [] UpdateConflict(st, old, email) -> Failed("23505", st, sq)
          [] OTHER -> [err |-> "", rows |-> <<Public(new)>>,
                       store |-> (st \ {old}) \cup {new}, seq |-> sq]

DeleteStudentOff(st, sq, sid) ==
    LET match == {r \in st : r.student_id = sid}
    IN  [err |-> "", rows |-> IF match = {} THEN <<0>> ELSE <<(CHOOSE r \in match : TRUE).id>>,
         store |-> st \ match, seq |-> sq]
DeleteStudent(st, sq, sid) ==
    LET match == {r \in st : r.student_id = sid}
    IN  [err |-> "", rows |-> IF match = {} THEN <<>> ELSE <<(CHOOSE r \in match : TRUE).id>>,
         store |-> st \ match, seq |-> sq]

SelectStudentOff(st, sid) ==
    LET match == {r \in st : r.student_id = sid}
    IN  IF match = {} THEN <<>>
        ELSE <<[Public(CHOOSE r \in match : TRUE) EXCEPT !.created_at = 0]>>
SelectStudent(st, sid) ==
    LET match == {r \in st : r.student_id = sid}
    IN  IF match = {} THEN <<>> ELSE <<Public(CHOOSE r \in match : TRUE)>>

(* ORDER BY created_at DESC: every ordering of the rows that is not ascending *)
(* anywhere; rows of equal created_at come in an order the store chooses     *)
SortKeyOff(r) == r.updated_at
SortKey(r) == r.created_at

Orderings(st) ==
    {q \in [1..Cardinality(st) -> st] :
        /\ \A i, j \in 1..Cardinality(st) : i # j => q[i] # q[j]
        /\ \A i, j \in 1..Cardinality(st) : i < j => SortKey(q[i]) >= SortKey(q[j])}

SelectAllOff(st) ==
    {[i \in 1..Cardinality(st) |-> Public(q[1])] : q \in Orderings(st)}
SelectAll(st) == {[i \in 1..Cardinality(st) |-> Public(q[i])] : q \in Orderings(st)}

-----------------------------------------------------------------------------
(* Requests and responses.  A slot is one invocation of a handler:         *)
(*   pc    "idle", "hash" (awaiting bcrypt.hash), "query" (awaiting        *)
(*         pool.query) or "done" (the response is sent)                    *)
(*   op    the route; id the :student_id parameter; body req.body          *)
(*   value the validated payload; hashed the password hash                 *)
(*   resp  the response [status, kind, body]; logged the logger.error call *)

Body(sid, name, email, pw, dept, year, unknown) ==
    [student_id |-> sid, name |-> name, email |-> email, password |-> pw,
     department |-> dept, enrollment_year |-> year, unknown |-> unknown]

NoBody == Body(Undef, Undef, Undef, Undef, Undef, Undef, "")

NoResp == [status |-> 0, kind |-> "none", body |-> <<>>]
Json(status, kind, body) == [status |-> status, kind |-> kind, body |-> body]
ErrorBody(msg) == [error |-> msg]
InternalError == Json(500, "error", ErrorBody("Internal server error"))
NotFound == Json(404, "error", ErrorBody("Student not found"))

Idle ==
    [pc |-> "idle", op |-> "", id |-> "", body |-> NoBody, value |-> NoBody,
     hashed |-> NoHash, resp |-> NoResp, logged |-> ""]

Started(op, id, body, pc) ==
    [pc |-> pc, op |-> op, id |-> id, body |-> body, value |-> NoBody,
     hashed |-> NoHash, resp |-> NoResp, logged |-> ""]

Answer(slot, resp) == [slot EXCEPT !.pc = "done", !.resp = resp]
CaughtOff(slot, code) ==
    [slot EXCEPT !.pc = "done", !.logged = code,
                 !.resp = IF code = "23505"
                          THEN Json(409, "error", ErrorBody("Student already exists"))
                          ELSE InternalError]
Caught(slot, code) ==
    [slot EXCEPT !.pc = "done", !.resp = InternalError, !.logged = code]

(* pool.query rejects without reaching the table when the connection fails *)
ConnectionLost == "08006"

(* no client handler awaits the response of this invocation *)
NoCall == [handler |-> "", captured |-> <<>>, confirmed |-> FALSE]

(* a handler is entered on a free invocation; which one carries no meaning *)
Free(s) ==
    slots[s].pc = "idle" /\ \A t \in DOMAIN slots : t < s => slots[t].pc # "idle"

Init ==
    /\ store = {}
    /\ seq = 1
    /\ clock = 0
    /\ slots = [s \in 1..NumSlots |-> Idle]
    /\ nReq = 0
    /\ students = <<>>
    /\ calls = [s \in 1..NumSlots |-> NoCall]

-----------------------------------------------------------------------------
(* Handlers.  `up` says whether pool.query reaches the store or rejects.  *)
(* A handler whose only await is its one statement is one step: nothing   *)
(* it reads or writes before the statement is shared.                      *)

(* GET /health *)
HealthOff(s) ==
    /\ Free(s)
    /\ slots' = [slots EXCEPT ![s] =
          Answer(Started("health", "", NoBody, "done"),
                 IF store = {} THEN InternalError
                 ELSE Json(200, "health", [status |-> "healthy", timestamp |-> clock]))]
    /\ nReq' = nReq + 1
    /\ UNCHANGED <<store, seq, clock>>
Health(s) ==
    /\ Free(s)
    /\ slots' = [slots EXCEPT ![s] =
          Answer(Started("health", "", NoBody, "done"),
                 Json(200, "health", [status |-> "healthy", timestamp |-> clock]))]
    /\ nReq' = nReq + 1
    /\ UNCHANGED <<store, seq, clock>>

(* POST /api/students, up to the first await *)
PostRejected(v) == v.error # Ok

PostStart(s, b) ==
    /\ Free(s)
    /\ LET v == Validate(b)
       IN  slots' = [slots EXCEPT ![s] =
             IF PostRejected(v)
             THEN Answer(Started("post", "", b, "done"),
                         Json(400, "error", ErrorBody(Message(v.error))))
             ELSE [Started("post", "", b, "hash") EXCEPT !.value = v.value]]
    /\ nReq' = nReq + 1
    /\ UNCHANGED <<store, seq, clock>>

(* bcrypt.hash resolves *)
PostHash(s) ==
    /\ slots[s].pc = "hash"
    /\ \E salt \in Salts :
         slots' = [slots EXCEPT ![s] =
            [@ EXCEPT !.pc = "query",
                      !.hashed = Hash(slots[s].value.password.s, salt)]]
    /\ UNCHANGED <<store, seq, clock, nReq>>

(* the INSERT settles and the handler answers *)
Created(row) == Json(201, "record", row)

PostInsert(s, up) ==
    /\ slots[s].pc = "query"
    /\ slots[s].op = "post"
    /\ IF ~up
       THEN /\ slots' = [slots EXCEPT ![s] = Caught(@, ConnectionLost)]
            /\ UNCHANGED <<store, seq>>
       ELSE LET v == slots[s].value
                r == InsertStudent(store, seq, clock, v.student_id, v.name, v.email,
                                   slots[s].hashed, v.department, v.enrollment_year)
            IN  /\ store' = r.store
                /\ seq' = r.seq
                /\ slots' = [slots EXCEPT ![s] =
                      IF r.err # "" THEN Caught(@, r.err)
                      ELSE Answer(@, Created(r.rows[1]))]
    /\ UNCHANGED <<clock, nReq>>

(* GET /api/students *)
(* the body is the array itself; the model holds it in a record, as every *)
(* body is one, so that any two responses can be compared                *)
Listed(rows) == Json(200, "list", [rows |-> rows])

List(s, up) ==
    /\ Free(s)
    /\ IF ~up
       THEN slots' = [slots EXCEPT ![s] =
              Caught(Started("list", "", NoBody, "query"), ConnectionLost)]
       ELSE \E rows \in SelectAll(store) :
              slots' = [slots EXCEPT ![s] =
                Answer(Started("list", "", NoBody, "query"), Listed(rows))]
    /\ nReq' = nReq + 1
    /\ UNCHANGED <<store, seq, clock>>

(* GET /api/students/:student_id *)
GetOff(s, id, up) ==
    /\ Free(s)
    /\ LET slot == Started("get", id, NoBody, "query")
           rows == SelectStudent(store, id)
       IN  slots' = [slots EXCEPT ![s] =
             CASE ~up -> Caught(slot, ConnectionLost)
               [] Len(rows) = 0 -> Answer(slot, Json(200, "record", <<>>))
               [] OTHER -> Answer(slot, Json(200, "record", rows[1]))]
    /\ nReq' = nReq + 1
    /\ UNCHANGED <<store, seq, clock>>
Get(s, id, up) ==
    /\ Free(s)
    /\ LET slot == Started("get", id, NoBody, "query")
           rows == SelectStudent(store, id)
       IN  slots' = [slots EXCEPT ![s] =
             CASE ~up -> Caught(slot, ConnectionLost)
               [] Len(rows) = 0 -> Answer(slot, NotFound)
               [] OTHER -> Answer(slot, Json(200, "record", rows[1]))]
    /\ nReq' = nReq + 1
    /\ UNCHANGED <<store, seq, clock>>

(* PUT /api/students/:student_id *)
PutOff(s, id, b, up) ==
    /\ Free(s)
    /\ LET slot == Started("put", id, b, "query")
           r == UpdateStudent(store, seq, clock, b.name, b.email, b.department,
                              b.enrollment_year, id)
           v == CheckYear(b.enrollment_year)
       IN  IF v # Ok
           THEN /\ slots' = [slots EXCEPT ![s] =
                      Answer(slot, Json(400, "error", ErrorBody(Message(v))))]
                /\ UNCHANGED <<store, seq>>
           ELSE IF ~up
           THEN /\ slots' = [slots EXCEPT ![s] = Caught(slot, ConnectionLost)]
                /\ UNCHANGED <<store, seq>>
           ELSE /\ store' = r.store
                /\ seq' = r.seq
                /\ slots' = [slots EXCEPT ![s] =
                      CASE r.err # "" -> Caught(slot, r.err)
                        [] Len(r.rows) = 0 -> Answer(slot, NotFound)
                        [] OTHER -> Answer(slot, Json(200, "record", r.rows[1]))]
    /\ nReq' = nReq + 1
    /\ UNCHANGED clock
Put(s, id, b, up) ==
    /\ Free(s)
    /\ LET slot == Started("put", id, b, "query")
           r == UpdateStudent(store, seq, clock, b.name, b.email, b.department,
                              b.enrollment_year, id)
       IN  IF ~up
           THEN /\ slots' = [slots EXCEPT ![s] = Caught(slot, ConnectionLost)]
                /\ UNCHANGED <<store, seq>>
           ELSE /\ store' = r.store
                /\ seq' = r.seq
                /\ slots' = [slots EXCEPT ![s] =
                      CASE r.err # "" -> Caught(slot, r.err)
                        [] Len(r.rows) = 0 -> Answer(slot, NotFound)
                        [] OTHER -> Answer(slot, Json(200, "record", r.rows[1]))]
    /\ nReq' = nReq + 1
    /\ UNCHANGED clock

(* DELETE /api/students/:student_id *)
DeleteOff(s, id, up) ==
    /\ Free(s)
    /\ LET slot == Started("delete", id, NoBody, "query")
           r == DeleteStudent(store, seq, id)
       IN  IF ~up
           THEN /\ slots' = [slots EXCEPT ![s] = Caught(slot, ConnectionLost)]
                /\ UNCHANGED <<store, seq>>
           ELSE /\ store' = store
                /\ seq' = r.seq
                /\ slots' = [slots EXCEPT ![s] =
                      IF Len(r.rows) = 0 THEN Answer(slot, NotFound)
                      ELSE Answer(slot, Json(204, "empty", <<>>))]
    /\ nReq' = nReq + 1
    /\ UNCHANGED clock
Delete(s, id, up) ==
    /\ Free(s)
    /\ LET slot == Started("delete", id, NoBody, "query")
           r == DeleteStudent(store, seq, id)
       IN  IF ~up
           THEN /\ slots' = [slots EXCEPT ![s] = Caught(slot, ConnectionLost)]
                /\ UNCHANGED <<store, seq>>
           ELSE /\ store' = r.store
                /\ seq' = r.seq
                /\ slots' = [slots EXCEPT ![s] =
                      IF Len(r.rows) = 0 THEN Answer(slot, NotFound)
                      ELSE Answer(slot, Json(204, "empty", <<>>))]
    /\ nReq' = nReq + 1
    /\ UNCHANGED clock

(* the client has the response; the invocation is over *)
Respond(s) ==
    /\ slots[s].pc = "done"
    /\ slots' = [slots EXCEPT ![s] = Idle]
    /\ UNCHANGED <<store, seq, clock, nReq>>

-----------------------------------------------------------------------------
(* The same handlers, step by step: entering a handler and the settling  *)
(* of its pool.query are two steps, and other invocations run in between *)

(* express.json() cannot parse the request body: next(err) with status    *)
(* 400 reaches no route, and with no error middleware installed the       *)
(* default handler of Express answers with an HTML page                   *)
ParseFailedPage == Json(400, "html", [page |-> "Bad Request"])

BodyRejected(s, op, id) ==
    /\ Free(s)
    /\ slots' = [slots EXCEPT ![s] = Answer(Started(op, id, NoBody, "done"), ParseFailedPage)]
    /\ nReq' = nReq + 1
    /\ UNCHANGED <<store, seq, clock>>

ListStart(s) ==
    /\ Free(s)
    /\ slots' = [slots EXCEPT ![s] = Started("list", "", NoBody, "query")]
    /\ nReq' = nReq + 1
    /\ UNCHANGED <<store, seq, clock>>

ListQuery(s, up) ==
    /\ slots[s].pc = "query"
    /\ slots[s].op = "list"
    /\ IF ~up
       THEN slots' = [slots EXCEPT ![s] = Caught(@, ConnectionLost)]
       ELSE \E rows \in SelectAll(store) :
              slots' = [slots EXCEPT ![s] = Answer(@, Listed(rows))]
    /\ UNCHANGED <<store, seq, clock, nReq>>

GetStart(s, id) ==
    /\ Free(s)
    /\ slots' = [slots EXCEPT ![s] = Started("get", id, NoBody, "query")]
    /\ nReq' = nReq + 1
    /\ UNCHANGED <<store, seq, clock>>

GetQuery(s, up) ==
    /\ slots[s].pc = "query"
    /\ slots[s].op = "get"
    /\ LET rows == SelectStudent(store, slots[s].id)
       IN  slots' = [slots EXCEPT ![s] =
             CASE ~up -> Caught(@, ConnectionLost)
               [] Len(rows) = 0 -> Answer(@, NotFound)
               [] OTHER -> Answer(@, Json(200, "record", rows[1]))]
    /\ UNCHANGED <<store, seq, clock, nReq>>

PutStart(s, id, b) ==
    /\ Free(s)
    /\ slots' = [slots EXCEPT ![s] = Started("put", id, b, "query")]
    /\ nReq' = nReq + 1
    /\ UNCHANGED <<store, seq, clock>>

PutQuery(s, up) ==
    /\ slots[s].pc = "query"
    /\ slots[s].op = "put"
    /\ LET b == slots[s].body
           r == UpdateStudent(store, seq, clock, b.name, b.email, b.department,
                              b.enrollment_year, slots[s].id)
       IN  IF ~up
           THEN /\ slots' = [slots EXCEPT ![s] = Caught(@, ConnectionLost)]
                /\ UNCHANGED <<store, seq>>
           ELSE /\ store' = r.store
                /\ seq' = r.seq
                /\ slots' = [slots EXCEPT ![s] =
                      CASE r.err # "" -> Caught(@, r.err)
                        [] Len(r.rows) = 0 -> Answer(@, NotFound)
                        [] OTHER -> Answer(@, Json(200, "record", r.rows[1]))]
    /\ UNCHANGED <<clock, nReq>>

DeleteStart(s, id) ==
    /\ Free(s)
    /\ slots' = [slots EXCEPT ![s] = Started("delete", id, NoBody, "query")]
    /\ nReq' = nReq + 1
    /\ UNCHANGED <<store, seq, clock>>

DeleteQueryOff(s, up) ==
    /\ slots[s].pc = "query"
    /\ slots[s].op = "delete"
    /\ LET r == DeleteStudent(store, seq, slots[s].id)
       IN  IF ~up
           THEN /\ slots' = [slots EXCEPT ![s] = Caught(@, ConnectionLost)]
                /\ UNCHANGED <<store, seq>>
           ELSE /\ store' = r.store
                /\ seq' = r.seq
                /\ slots' = [slots EXCEPT ![s] = Answer(@, Json(204, "empty", <<>>))]
    /\ UNCHANGED <<clock, nReq>>
DeleteQuery(s, up) ==
    /\ slots[s].pc = "query"
    /\ slots[s].op = "delete"
    /\ LET r == DeleteStudent(store, seq, slots[s].id)
       IN  IF ~up
           THEN /\ slots' = [slots EXCEPT ![s] = Caught(@, ConnectionLost)]
                /\ UNCHANGED <<store, seq>>
           ELSE /\ store' = r.store
                /\ seq' = r.seq
                /\ slots' = [slots EXCEPT ![s] =
                      IF Len(r.rows) = 0 THEN Answer(@, NotFound)
                      ELSE Answer(@, Json(204, "empty", <<>>))]
    /\ UNCHANGED <<clock, nReq>>

(* a handler run from request to response with nothing in between, the   *)
(* store answering every query: the responses it can send and the table  *)
(* and sequence it leaves, from the table st and sequence sq at time now  *)
Outcome(resp, st, sq) == [resp |-> resp, store |-> st, seq |-> sq]

Serve(op, id, b, st, sq, now) ==
    CASE op = "post" ->
           LET v == Validate(b)
           IN  IF PostRejected(v)
               THEN {Outcome(Json(400, "error", ErrorBody(Message(v.error))), st, sq)}
               ELSE {LET r == InsertStudent(st, sq, now, v.value.student_id, v.value.name,
                                            v.value.email, Hash(v.value.password.s, salt),
                                            v.value.department, v.value.enrollment_year)
                     IN  Outcome(IF r.err # "" THEN InternalError ELSE Created(r.rows[1]),
                                 r.store, r.seq) : salt \in Salts}
      [] op = "list" -> {Outcome(Listed(rows), st, sq) : rows \in SelectAll(st)}
      [] op = "get" ->
           LET rows == SelectStudent(st, id)
           IN  {Outcome(IF Len(rows) = 0 THEN NotFound ELSE Json(200, "record", rows[1]),
                        st, sq)}
      [] op = "put" ->
           LET r == UpdateStudent(st, sq, now, b.name, b.email, b.department,
                                  b.enrollment_year, id)
           IN  {Outcome(CASE r.err # "" -> InternalError
                          [] Len(r.rows) = 0 -> NotFound
                          [] OTHER -> Json(200, "record", r.rows[1]),
                        r.store, r.seq)}
      [] op = "delete" ->
           LET r == DeleteStudent(st, sq, id)
           IN  {Outcome(IF Len(r.rows) = 0 THEN NotFound ELSE Json(204, "empty", <<>>),
                        r.store, r.seq)}

(* the promise an invocation awaits settles: bcrypt.hash or pool.query *)
Settle(s) ==
    \/ PostHash(s)
    \/ \E up \in BOOLEAN :
          \/ PostInsert(s, up) \/ ListQuery(s, up) \/ GetQuery(s, up)
          \/ PutQuery(s, up) \/ DeleteQuery(s, up)

-----------------------------------------------------------------------------
(* The client: App of frontend/src/App.js.  A handler of App is created   *)
(* anew at every render and sees the students of that render; what it     *)
(* does after its await it does with those students.                      *)

Call(handler, captured, confirmed) ==
    [handler |-> handler, captured |-> captured, confirmed |-> confirmed]

(* axios resolves on a 2xx status and rejects on any other *)
Resolved(resp) == resp.status >= 200 /\ resp.status < 300

(* setLoading(true) ... finally setLoading(false): the button is disabled *)
Loading == \E s \in DOMAIN calls : calls[s].handler = "submit"

Without(list, id) ==
    LET Other(x) == x.student_id # id
    IN  SelectSeq(list, Other)

(* fetchStudents after its await *)
FetchDone(s) ==
    /\ calls[s].handler = "fetch"
    /\ Respond(s)
    /\ students' = IF Resolved(slots[s].resp) THEN slots[s].resp.body.rows ELSE students
    /\ calls' = [calls EXCEPT ![s] = NoCall]

(* handleSubmit up to its await *)
HandleSubmit(s, form) ==
    /\ ~Loading
    /\ PostStart(s, form)
    /\ calls' = [calls EXCEPT ![s] = Call("submit", students, FALSE)]
    /\ UNCHANGED students

(* handleSubmit after its await *)
SubmitDone(s) ==
    /\ calls[s].handler = "submit"
    /\ Respond(s)
    /\ students' = IF Resolved(slots[s].resp)
                   THEN <<slots[s].resp.body>> \o calls[s].captured
                   ELSE students
    /\ calls' = [calls EXCEPT ![s] = NoCall]

(* handleDelete of the i-th row shown, up to its await; ok is the user's  *)
(* answer to window.confirm                                               *)
HandleDelete(s, i, ok) ==
    /\ i \in 1..Len(students)
    /\ IF ~ok
       THEN UNCHANGED vars
       ELSE /\ DeleteStart(s, students[i].student_id)
            /\ calls' = [calls EXCEPT ![s] = Call("delete", students, ok)]
            /\ UNCHANGED students

(* handleDelete after its await *)
DeleteDone(s) ==
    /\ calls[s].handler = "delete"
    /\ Respond(s)
    /\ students' = IF Resolved(slots[s].resp)
                   THEN Without(calls[s].captured, slots[s].id)
                   ELSE students
    /\ calls' = [calls EXCEPT ![s] = NoCall]

-----------------------------------------------------------------------------
(* Environment *)

(* the clock CURRENT_TIMESTAMP and new Date() read moves on *)
Tick ==
    /\ clock' = clock + 1
    /\ UNCHANGED <<store, seq, slots, nReq>>

-----------------------------------------------------------------------------
(* The requests the clients send *)

LongStudentId == "STU000000000000000001"

Student(sid, email) ==
    Body(Str(sid), Str("Ann"), Str(email), Str("secret"), Str("CS"), Num(2023), "")

Ids == {"STU001", "STU002"}
Emails == {"a@x.com", "b@x.com"}

PostBodies ==
    {Student(sid, email) : sid \in Ids, email \in Emails}
      \cup {[Student("STU001", "a@x.com") EXCEPT !.password = Str("short")],
            Student(LongStudentId, "a@x.com")}

(* PUT bodies: complete with a year the creation schema would refuse,     *)
(* partial, and complete with a year that is no number at all             *)
Malformed == Body(Undef, Str("Bob"), Str("a@x.com"), Undef, Str("EE"), Str("soon"), "")
Moved == Body(Undef, Undef, Undef, Undef, Str("EE"), Num(2020), "")

PutBodies ==
    {Body(Undef, Str("Bob"), Str(email), Undef, Str("EE"), Num(1999), "") : email \in Emails}
      \cup {Body(Undef, Str("Bob"), Undef, Undef, Undef, Undef, ""), Malformed, Moved}

Next ==
    \/ \E s \in DOMAIN slots : nReq < MaxReq /\ Health(s) /\ UNCHANGED ui
    \/ \E s \in DOMAIN slots, b \in PostBodies : nReq < MaxReq /\ PostStart(s, b)
          /\ UNCHANGED ui
    \/ \E s \in DOMAIN slots : PostHash(s) /\ UNCHANGED ui
    \/ \E s \in DOMAIN slots, up \in BOOLEAN : PostInsert(s, up) /\ UNCHANGED ui
    \/ \E s \in DOMAIN slots, up \in BOOLEAN : nReq < MaxReq /\ List(s, up) /\ UNCHANGED ui
    \/ \E s \in DOMAIN slots, id \in Ids, up \in BOOLEAN : nReq < MaxReq /\ Get(s, id, up)
          /\ UNCHANGED ui
    \/ \E s \in DOMAIN slots, id \in Ids, b \in PutBodies, up \in BOOLEAN :
          nReq < MaxReq /\ Put(s, id, b, up) /\ UNCHANGED ui
    \/ \E s \in DOMAIN slots, id \in Ids, up \in BOOLEAN : nReq < MaxReq /\ Delete(s, id, up)
          /\ UNCHANGED ui
    \/ \E s \in DOMAIN slots : Respond(s) /\ UNCHANGED ui
    \/ clock < MaxClock /\ Tick /\ UNCHANGED ui

Spec == Init /\ [][Next]_vars

-----------------------------------------------------------------------------
(* Creation under concurrency: POST and DELETE handlers only, several      *)
(* invocations in flight at once                                           *)

NumPosters == 2
MaxPosts == 3

(* payloads that pass validation; some share a student_id, some an email *)
RivalBodies ==
    {Student("STU001", "a@x.com"), Student("STU001", "b@x.com"),
     Student("STU002", "a@x.com"), Student(LongStudentId, "a@x.com")}

InitPost ==
    /\ store = {}
    /\ seq = 1
    /\ clock = 0
    /\ slots = [s \in 1..NumPosters |-> Idle]
    /\ nReq = 0
    /\ students = <<>>
    /\ calls = [s \in 1..NumPosters |-> NoCall]

NextPost ==
    \/ \E s \in DOMAIN slots, b \in RivalBodies : nReq < MaxPosts /\ PostStart(s, b)
          /\ UNCHANGED ui
    \/ \E s \in DOMAIN slots : PostHash(s) /\ UNCHANGED ui
    \/ \E s \in DOMAIN slots, up \in BOOLEAN : PostInsert(s, up) /\ UNCHANGED ui
    \/ \E s \in DOMAIN slots, id \in Ids, up \in BOOLEAN :
          nReq < MaxPosts /\ Delete(s, id, up) /\ UNCHANGED ui
    \/ \E s \in DOMAIN slots : Respond(s) /\ UNCHANGED ui
    \/ clock < MaxClock /\ Tick /\ UNCHANGED ui

SpecPost == InitPost /\ [][NextPost]_vars

-----------------------------------------------------------------------------
(* Validation: POST handlers fed payloads of every kind *)

MaxChecks == 2

YearValues ==
    {Num(1999), Num(2000), Num(2012), Num(2024), Num(2025), NumStr(2012), NumStr(2025),
     Frac(2012), Str("soon"), Undef}

PasswordValues ==
    {Str("abcde"), Str("abcdef"), Str("abcdefg"), Str("a"), Str(""), Num(1234567), Undef}

BadStrings == {Undef, Str(""), Num(7)}

ValidationBodies ==
    {[Student("STU001", "a@x.com") EXCEPT !.enrollment_year = y] : y \in YearValues}
      \cup {[Student("STU001", "a@x.com") EXCEPT !.password = pw] : pw \in PasswordValues}
      \cup {[Student("STU001", "a@x.com") EXCEPT !.student_id = v] : v \in BadStrings}
      \cup {[Student("STU001", "a@x.com") EXCEPT !.name = v, !.department = v] :
              v \in BadStrings}
      \cup {Body(Str("STU002"), Str("Ann"), email, pw, Str("CS"), year, unknown) :
              email \in {Str("b@x.com"), Str("nobody")}, pw \in {Str("secret"), Str("abcde")},
              year \in {Num(2023), Num(1999)}, unknown \in {"", "role"}}

NextValidate ==
    \/ \E s \in DOMAIN slots, b \in ValidationBodies : nReq < MaxChecks /\ PostStart(s, b)
          /\ UNCHANGED ui
    \/ \E s \in DOMAIN slots : PostHash(s) /\ UNCHANGED ui
    \/ \E s \in DOMAIN slots, up \in BOOLEAN : PostInsert(s, up) /\ UNCHANGED ui
    \/ \E s \in DOMAIN slots : Respond(s) /\ UNCHANGED ui
    \/ clock < MaxClock /\ Tick /\ UNCHANGED ui

SpecValidate == Init /\ [][NextValidate]_vars

-----------------------------------------------------------------------------
(* Listing: three students are created, one is updated, the list is read *)

MaxListReq == 4
MaxListClock == 2

Renamed == Body(Undef, Str("Bob"), Str("a@x.com"), Undef, Str("EE"), Num(2020), "")

ListedBodies ==
    {Student("STU001", "a@x.com"), Student("STU002", "b@x.com"),
     Student("STU003", "c@x.com")}

NextList ==
    \/ \E s \in DOMAIN slots, b \in ListedBodies : nReq < MaxListReq /\ PostStart(s, b)
          /\ UNCHANGED ui
    \/ \E s \in DOMAIN slots : PostHash(s) /\ UNCHANGED ui
    \/ \E s \in DOMAIN slots, up \in BOOLEAN : PostInsert(s, up) /\ UNCHANGED ui
    \/ \E s \in DOMAIN slots, up \in BOOLEAN :
          nReq < MaxListReq /\ Put(s, "STU001", Renamed, up) /\ UNCHANGED ui
    \/ \E s \in DOMAIN slots, up \in BOOLEAN : nReq < MaxListReq /\ List(s, up)
          /\ UNCHANGED ui
    \/ \E s \in DOMAIN slots : Respond(s) /\ UNCHANGED ui
    \/ clock < MaxListClock /\ Tick /\ UNCHANGED ui

SpecList == Init /\ [][NextList]_vars

-----------------------------------------------------------------------------
(* Reading back: several invocations in flight; STU001 is created and read *)
(* and never updated or deleted, STU002 is created, updated and deleted    *)

Kept == "STU001"
Churned == "STU002"

KeptAndChurned == {Student(Kept, "a@x.com"), Student(Churned, "b@x.com")}

Retitled == Body(Undef, Str("Bob"), Str("b@x.com"), Undef, Str("EE"), Num(2020), "")

NextRead ==
    \/ \E s \in DOMAIN slots : nReq < MaxPosts /\ Health(s) /\ UNCHANGED ui
    \/ \E s \in DOMAIN slots, b \in KeptAndChurned : nReq < MaxPosts /\ PostStart(s, b)
          /\ UNCHANGED ui
    \/ \E s \in DOMAIN slots : PostHash(s) /\ UNCHANGED ui
    \/ \E s \in DOMAIN slots, up \in BOOLEAN : PostInsert(s, up) /\ UNCHANGED ui
    \/ \E s \in DOMAIN slots, up \in BOOLEAN : nReq < MaxPosts /\ Get(s, Kept, up)
          /\ UNCHANGED ui
    \/ \E s \in DOMAIN slots, up \in BOOLEAN : nReq < MaxPosts /\ Put(s, Churned, Retitled, up)
          /\ UNCHANGED ui
    \/ \E s \in DOMAIN slots, up \in BOOLEAN : nReq < MaxPosts /\ Delete(s, Churned, up)
          /\ UNCHANGED ui
    \/ \E s \in DOMAIN slots : Respond(s) /\ UNCHANGED ui
    \/ clock < MaxClock /\ Tick /\ UNCHANGED ui

SpecRead == InitPost /\ [][NextRead]_vars

-----------------------------------------------------------------------------
(* Serving: every route, handlers taken step by step, queries that fail,   *)
(* bodies that are not JSON; a promise that is awaited settles             *)

ServedBodies ==
    {Student("STU001", "a@x.com"),
     [Student("STU001", "a@x.com") EXCEPT !.password = Str("short")]}

ServedUpdates == {Retitled, Malformed}

NextServe ==
    \/ \E s \in DOMAIN slots : nReq < MaxReq /\ BodyRejected(s, "post", "") /\ UNCHANGED ui
    \/ \E s \in DOMAIN slots : nReq < MaxReq /\ BodyRejected(s, "put", Kept) /\ UNCHANGED ui
    \/ \E s \in DOMAIN slots, b \in ServedBodies : nReq < MaxReq /\ PostStart(s, b)
          /\ UNCHANGED ui
    \/ \E s \in DOMAIN slots : nReq < MaxReq /\ ListStart(s) /\ UNCHANGED ui
    \/ \E s \in DOMAIN slots : nReq < MaxReq /\ GetStart(s, Kept) /\ UNCHANGED ui
    \/ \E s \in DOMAIN slots, b \in ServedUpdates : nReq < MaxReq /\ PutStart(s, Kept, b)
          /\ UNCHANGED ui
    \/ \E s \in DOMAIN slots : nReq < MaxReq /\ DeleteStart(s, Kept) /\ UNCHANGED ui
    \/ \E s \in DOMAIN slots : Settle(s) /\ UNCHANGED ui
    \/ \E s \in DOMAIN slots : Respond(s) /\ UNCHANGED ui

(* where each invocation stands; every step of Settle changes it *)
Awaiting == [s \in DOMAIN slots |-> slots[s].pc]

SpecServe == Init /\ [][NextServe]_vars /\ \A s \in 1..NumSlots : WF_Awaiting(Settle(s))

-----------------------------------------------------------------------------
(* Racing: create, read, update and delete one student from several         *)
(* invocations at once; every response is kept, every query reaches the     *)
(* store                                                                    *)

NumRacers == 3

RacedBodies == {Student(Kept, "a@x.com")}

InitRace ==
    /\ store = {}
    /\ seq = 1
    /\ clock = 0
    /\ slots = [s \in 1..NumRacers |-> Idle]
    /\ nReq = 0
    /\ students = <<>>
    /\ calls = [s \in 1..NumRacers |-> NoCall]

NextRace ==
    \/ \E s \in DOMAIN slots, b \in RacedBodies : PostStart(s, b) /\ UNCHANGED ui
    \/ \E s \in DOMAIN slots : PostHash(s) /\ UNCHANGED ui
    \/ \E s \in DOMAIN slots : PostInsert(s, TRUE) /\ UNCHANGED ui
    \/ \E s \in DOMAIN slots : ListStart(s) /\ UNCHANGED ui
    \/ \E s \in DOMAIN slots : ListQuery(s, TRUE) /\ UNCHANGED ui
    \/ \E s \in DOMAIN slots : GetStart(s, Kept) /\ UNCHANGED ui
    \/ \E s \in DOMAIN slots : GetQuery(s, TRUE) /\ UNCHANGED ui
    \/ \E s \in DOMAIN slots : PutStart(s, Kept, Retitled) /\ UNCHANGED ui
    \/ \E s \in DOMAIN slots : PutQuery(s, TRUE) /\ UNCHANGED ui
    \/ \E s \in DOMAIN slots : DeleteStart(s, Kept) /\ UNCHANGED ui
    \/ \E s \in DOMAIN slots : DeleteQuery(s, TRUE) /\ UNCHANGED ui
    \/ clock < MaxClock /\ Tick /\ UNCHANGED ui

SpecRace == InitRace /\ [][NextRace]_vars

-----------------------------------------------------------------------------
(* The client at work: the server holds two students, App has mounted and *)
(* its fetch is on the way; the user registers and deletes students; every *)
(* query reaches the store                                                 *)

(* the values of the form: each one the text of an input *)
FormData(sid, email) == [Student(sid, email) EXCEPT !.enrollment_year = NumStr(2023)]

Register(st, sq, b) ==
    InsertStudent(st, sq, 0, b.student_id, b.name, b.email, Hash(b.password.s, "salt1"),
                  b.department, b.enrollment_year)

Seeded ==
    Register(Register({}, 1, Student("STU001", "a@x.com")).store, 2,
             Student("STU002", "b@x.com"))

Forms == {FormData("STU003", "c@x.com")}

InitClient ==
    /\ store = Seeded.store
    /\ seq = Seeded.seq
    /\ clock = 0
    /\ slots = [s \in 1..NumRacers |->
                  IF s = 1 THEN Started("list", "", NoBody, "query") ELSE Idle]
    /\ nReq = 1
    /\ students = <<>>
    /\ calls = [s \in 1..NumRacers |-> IF s = 1 THEN Call("fetch", <<>>, FALSE) ELSE NoCall]

NextClient ==
    \/ \E s \in DOMAIN slots, form \in Forms :
          nReq < MaxReq /\ HandleSubmit(s, form)
    \/ \E s \in DOMAIN slots, i \in 1..Len(students), ok \in BOOLEAN :
          nReq < MaxReq /\ HandleDelete(s, i, ok)
    \/ \E s \in DOMAIN slots : PostHash(s) /\ UNCHANGED ui
    \/ \E s \in DOMAIN slots : PostInsert(s, TRUE) /\ UNCHANGED ui
    \/ \E s \in DOMAIN slots : ListQuery(s, TRUE) /\ UNCHANGED ui
    \/ \E s \in DOMAIN slots : DeleteQuery(s, TRUE) /\ UNCHANGED ui
    \/ \E s \in DOMAIN slots : FetchDone(s)
    \/ \E s \in DOMAIN slots : SubmitDone(s)
    \/ \E s \in DOMAIN slots : DeleteDone(s)

SpecClient == InitClient /\ [][NextClient]_vars

-----------------------------------------------------------------------------
(* What the claims speak of *)

Done(s) == slots[s].pc = "done"
Finishes(s) == slots[s].pc # "done" /\ slots'[s].pc = "done"
Reached(slot) == slot.logged # ConnectionLost
ValidPost(slot) == slot.op = "post" /\ Validate(slot.body).error = Ok
Succeeded(slot) == slot.resp.status \in {200, 201, 204}

UniqueKeys ==
    \A r1, r2 \in store :
        r1 # r2 => r1.student_id # r2.student_id /\ r1.email # r2.email

(* the write the invocation asks for would give two rows one key *)
WouldConflict(slot, st) ==
    \/ /\ slot.op = "post"
       /\ \E r \in st : \/ r.student_id = TextOf(slot.body.student_id)
                        \/ r.email = TextOf(slot.body.email)
    \/ /\ slot.op = "put"
       /\ \E r \in st : r.student_id # slot.id /\ r.email = TextOf(slot.body.email)

ConflictRejected ==
    \A s \in DOMAIN slots :
        (Finishes(s) /\ WouldConflict(slots'[s], store))
            => (~Succeeded(slots'[s]) /\ store' = store)

(* C1: in every reachable state no two stored records share a student_id   *)
(* and no two share an email, and a POST or PUT that would give two        *)
(* records one student_id or one email fails and leaves the table as it    *)
(* was.                                                                    *)
C1_Unique == [](UniqueKeys) /\ [][ConflictRejected]_vars

C1_Witness ==
    /\ Cardinality(store) = 2
    /\ \E s \in DOMAIN slots :
         Done(s) /\ slots[s].op = "put" /\ slots[s].logged = "23505"

-----------------------------------------------------------------------------
SameKey(a, b) ==
    \/ TextOf(a.body.student_id) = TextOf(b.body.student_id)
    \/ TextOf(a.body.email) = TextOf(b.body.email)

(* a payload the table holds when nothing stands in its way *)
Storable(slot) ==
    /\ ValidPost(slot)
    /\ Len(TextOf(slot.body.student_id)) <= 20
    /\ Reached(slot)

Rivals(s, t) ==
    /\ s # t
    /\ Done(s) /\ Done(t)
    /\ Storable(slots[s]) /\ Storable(slots[t])
    /\ SameKey(slots[s], slots[t])

(* C2: when the only two requests are POSTs with valid payloads of one     *)
(* student_id or one email, whose statements both reach the store, then    *)
(* however their hashes and inserts interleave exactly one is answered 201 *)
(* and the other 500, and exactly one record is stored.                    *)
C2_OneWins ==
    \A s, t \in DOMAIN slots :
        (nReq = 2 /\ Rivals(s, t)) =>
            /\ {slots[s].resp.status, slots[t].resp.status} = {201, 500}
            /\ Cardinality(store) = 1

C2_Witness ==
    \E s, t \in DOMAIN slots :
        /\ nReq = 2 /\ Rivals(s, t)
        /\ slots[s].resp.status = 500 /\ slots[t].resp.status = 201
        /\ s < t
        /\ TextOf(slots[s].body.student_id) # TextOf(slots[t].body.student_id)

Inserted(s) == Done(s) /\ slots[s].op = "post" /\ slots[s].resp.status = 201

DistinctIds ==
    \A s, t \in DOMAIN slots :
        (s # t /\ Inserted(s) /\ Inserted(t)) => slots[s].resp.body.id # slots[t].resp.body.id

DistinctTimestamps ==
    \A s, t \in DOMAIN slots :
        (s # t /\ Inserted(s) /\ Inserted(t))
            => slots[s].resp.body.created_at # slots[t].resp.body.created_at

(* the step that answers 201 adds one row: the payload's student_id and    *)
(* email, the sequence's id, the clock's reading as both timestamps        *)
StoresPayload ==
    \A s \in DOMAIN slots :
        (Finishes(s) /\ slots'[s].op = "post" /\ slots'[s].resp.status = 201) =>
            \E r \in store' \ store :
                /\ store' = store \cup {r}
                /\ r.student_id = slots'[s].body.student_id.s
                /\ r.email = slots'[s].body.email.s
                /\ r.id \notin {x.id : x \in store}
                /\ r.created_at = clock /\ r.updated_at = clock
                /\ slots'[s].resp.body = Public(r)

(* C3 as amended: a POST answered 201 has stored a record with the         *)
(* payload's student_id and email; its id is generated by the store and    *)
(* differs from the id of every other insert, also of records deleted      *)
(* since; its timestamps are the store clock's reading at the insert,      *)
(* which two inserts may share.                                            *)
C3_Stored == [](DistinctIds) /\ [][StoresPayload]_vars

(* C3 as claimed: ids and creation timestamps differ between any two inserts *)
C3_Original == DistinctIds /\ DistinctTimestamps

C3_Witness ==
    /\ Inserted(1) /\ Inserted(2)
    /\ slots[1].body.student_id = slots[2].body.student_id
    /\ Cardinality(store) = 1

-----------------------------------------------------------------------------
(* The rules of the creation payload, as the specification words them *)

NonEmptyString(v) == v.k \in {"str", "numstr"} /\ v.s # ""
EmailOk(v) == NonEmptyString(v) /\ v.s \in {"a@x.com", "b@x.com", "c@x.com"}
PasswordOk(v) == v.k \in {"str", "numstr"} /\ Len(v.s) >= 6
YearOk(v) == v.k \in {"num", "numstr"} /\ v.n >= 2000 /\ v.n <= 2024

FieldOk(key, body) ==
    CASE key = "email" -> EmailOk(body.email)
      [] key = "password" -> PasswordOk(body.password)
      [] key = "enrollment_year" -> YearOk(body.enrollment_year)
      [] OTHER -> NonEmptyString(body[key])

Keys == {"student_id", "name", "email", "password", "department", "enrollment_year"}
OthersOk(key, body) == body.unknown = "" /\ \A k \in Keys \ {key} : FieldOk(k, body)

Posting(slot) == slot.op = "post"
Rejected(slot) == slot.pc = "done" /\ slot.resp.status = 400
Passed(slot) == Posting(slot) /\ ~Rejected(slot)

(* C5: with the other fields valid, a POST passes validation exactly when  *)
(* enrollment_year is an integer from 2000 to 2024 (given as a number or   *)
(* as its decimal string), and is answered 400 otherwise: 1999 and 2025    *)
(* are rejected, 2000 and 2024 pass.                                       *)
C5_YearRange ==
    \A s \in DOMAIN slots :
        (Posting(slots[s]) /\ OthersOk("enrollment_year", slots[s].body)) =>
            (Passed(slots[s]) <=> YearOk(slots[s].body.enrollment_year))

C5_Witness ==
    /\ nReq = 2
    /\ slots[1].body.enrollment_year = Num(2000) /\ Passed(slots[1])
    /\ slots[1].pc = "done"
    /\ \E r \in store : r.enrollment_year = 2000

(* C6: with the other fields valid, a POST passes validation exactly when  *)
(* password is a string of at least 6 characters, and is answered 400      *)
(* otherwise: length 5 is rejected, length 6 passes.                       *)
C6_PasswordLength ==
    \A s \in DOMAIN slots :
        (Posting(slots[s]) /\ OthersOk("password", slots[s].body)) =>
            (Passed(slots[s]) <=> PasswordOk(slots[s].body.password))

C6_Witness ==
    \E s \in DOMAIN slots :
        /\ OthersOk("password", slots[s].body)
        /\ slots[s].body.password = Str("abcde")
        /\ Rejected(slots[s])

MeetsRules(body) == body.unknown = "" /\ \A k \in Keys : FieldOk(k, body)

(* the keys in the order of the schema, and the first that breaks its rule *)
KeyAt(i) == SchemaKeys[i]
FirstBroken(body) ==
    IF \E i \in 1..6 : ~FieldOk(KeyAt(i), body)
    THEN KeyAt(CHOOSE i \in 1..6 :
                 ~FieldOk(KeyAt(i), body) /\ \A j \in 1..(i - 1) : FieldOk(KeyAt(j), body))
    ELSE body.unknown

Codes ==
    {"any.required", "string.base", "string.empty", "string.email", "string.min",
     "number.base", "number.integer", "number.min", "number.max", "object.unknown"}

NamesFirstBroken(slot) ==
    \E code \in Codes : slot.resp.body.error = Message(Msg(FirstBroken(slot.body), code))

RejectedCleanly ==
    \A s \in DOMAIN slots :
        (slots[s].pc = "idle" /\ Posting(slots'[s]) /\ ~MeetsRules(slots'[s].body)) =>
            /\ Rejected(slots'[s])
            /\ slots'[s].resp.kind = "error"
            /\ DOMAIN slots'[s].resp.body = {"error"}
            /\ NamesFirstBroken(slots'[s])
            /\ slots'[s].hashed = NoHash
            /\ store' = store /\ seq' = seq

NoWorkAfterReject ==
    \A s \in DOMAIN slots :
        Rejected(slots[s]) =>
            /\ Rejected(slots'[s]) \/ slots'[s] = Idle
            /\ slots[s].hashed = NoHash /\ slots[s].logged = ""

(* C7: a POST whose payload breaks a rule is answered 400 at once, with    *)
(* the message of the first key, in schema order, that breaks its rule;    *)
(* no password is hashed, no statement reaches the store, and the table    *)
(* and its sequence stay as they were.                                     *)
C7_RejectedCleanly == [][RejectedCleanly /\ NoWorkAfterReject]_vars

C7_Witness ==
    /\ store # {}
    /\ \E s \in DOMAIN slots :
         /\ Rejected(slots[s])
         /\ ~EmailOk(slots[s].body.email) /\ ~PasswordOk(slots[s].body.password)
         /\ slots[s].resp.body.error = "\"email\" must be a valid email"

-----------------------------------------------------------------------------
StringColumns == {"student_id", "name", "email", "department"}

(* every password a client has sent or a stored hash was made of *)
Plaintexts ==
    ({slots[s].body.password.s : s \in DOMAIN slots} \cup {r.password.of : r \in store})
        \ {""}

RowLeaks(b) ==
    \/ "password" \in DOMAIN b
    \/ \E f \in DOMAIN b \cap StringColumns : b[f] \in Plaintexts

Leaks(resp) ==
    CASE resp.kind = "record" -> RowLeaks(resp.body)
      [] resp.kind = "list" -> \E i \in 1..Len(resp.body.rows) : RowLeaks(resp.body.rows[i])
      [] resp.kind = "error" ->
           DOMAIN resp.body # {"error"} \/ resp.body.error \in Plaintexts
      [] resp.kind = "health" -> DOMAIN resp.body # {"status", "timestamp"}
      [] OTHER -> resp.body # <<>>

(* C4: no response of any endpoint, success or failure, has a password     *)
(* field or a field whose value is a password a client sent or a stored    *)
(* hash.                                                                   *)
C4_NoSecret == \A s \in DOMAIN slots : Done(s) => ~Leaks(slots[s].resp)

C4_Witness ==
    \E s \in DOMAIN slots :
        /\ Done(s) /\ slots[s].op = "put" /\ slots[s].resp.status = 200
        /\ \E r \in store : r.id = slots[s].resp.body.id /\ r.password.of = "secret"

ConflictIs500 ==
    \A s \in DOMAIN slots :
        (Finishes(s) /\ Posting(slots'[s]) /\ MeetsRules(slots'[s].body)
           /\ WouldConflict(slots'[s], store)) =>
            /\ slots'[s].resp.status = 500
            /\ slots'[s].resp.body = [error |-> "Internal server error"]
            /\ store' = store

(* C8: a POST whose payload passes validation and whose student_id or      *)
(* email is already stored is answered 500 with the body                   *)
(* {error: 'Internal server error'}, and the table is unchanged.           *)
C8_ConflictIs500 == [][ConflictIs500]_vars

C8_Witness ==
    \E s \in DOMAIN slots :
        /\ Done(s) /\ Posting(slots[s]) /\ slots[s].logged = "23505"
        /\ slots[s].resp.status = 500
        /\ \E r \in store : /\ r.email = slots[s].body.email.s
                            /\ r.student_id # slots[s].body.student_id.s

ListOf(slot) == slot.resp.body.rows

NewestFirst(rows) ==
    \A i, j \in 1..Len(rows) :
        i < j => /\ rows[i].created_at >= rows[j].created_at
                 /\ rows[i].id < rows[j].id => rows[i].created_at = rows[j].created_at

ReverseOfCreation(rows) ==
    \A i, j \in 1..Len(rows) : i < j => rows[i].id > rows[j].id

GotList(s) == Done(s) /\ slots[s].op = "list" /\ slots[s].resp.status = 200

(* C9 as amended: GET /api/students returns the records by created_at      *)
(* descending, whatever updates happened in between: a record created at   *)
(* a later clock reading comes before one created at an earlier reading,   *)
(* so R1, R2, R3 created at three different readings come back as          *)
(* [R3, R2, R1]; records created at the same reading come in either order. *)
C9_NewestFirst == \A s \in DOMAIN slots : GotList(s) => NewestFirst(ListOf(slots[s]))

(* C9 as claimed: the records always come back in reverse order of creation *)
C9_Original == \A s \in DOMAIN slots : GotList(s) => ReverseOfCreation(ListOf(slots[s]))

C9_Witness ==
    \E s \in DOMAIN slots :
        /\ GotList(s)
        /\ Len(ListOf(slots[s])) = 3
        /\ \A i \in 1..3 : ListOf(slots[s])[i].id = 4 - i
        /\ ListOf(slots[s])[1].created_at = 2 /\ ListOf(slots[s])[3].created_at = 0

ListsStore ==
    \A s \in DOMAIN slots :
        (Finishes(s) /\ slots'[s].op = "list" /\ Reached(slots'[s])) =>
            /\ slots'[s].resp.status = 200
            /\ slots'[s].resp.kind = "list"
            /\ Len(ListOf(slots'[s])) = Cardinality(store)
            /\ \A r \in store : \E i \in 1..Len(ListOf(slots'[s])) :
                  /\ ListOf(slots'[s])[i].id = r.id
                  /\ ListOf(slots'[s])[i].student_id = r.student_id
                  /\ ListOf(slots'[s])[i].email = r.email
            /\ store' = store

(* C10: a GET /api/students whose query reaches the store is answered 200  *)
(* with the records of the table, each once and no other: a record created *)
(* and not deleted is there, a deleted one is not, and an empty table      *)
(* gives the empty sequence with 200.                                      *)
C10_ListsStore == [][ListsStore]_vars

C10_Witness ==
    \E s \in DOMAIN slots :
        /\ GotList(s) /\ Len(ListOf(slots[s])) = 2 /\ Cardinality(store) = 2

-----------------------------------------------------------------------------
(* Deleting *)

Has(st, id) == \E r \in st : r.student_id = id
Deletes(s) == Finishes(s) /\ slots'[s].op = "delete" /\ Reached(slots'[s])
Deleted(s) == Done(s) /\ slots[s].op = "delete" /\ slots[s].resp.status = 204

DeleteOfMissing ==
    \A s \in DOMAIN slots :
        (Deletes(s) /\ ~Has(store, slots'[s].id)) =>
            /\ slots'[s].resp.status = 404
            /\ slots'[s].resp.body = [error |-> "Student not found"]
            /\ store' = store

(* C11: a DELETE for a student_id that matches no record is answered 404   *)
(* with the not-found body, never 204, and leaves the store unchanged; so  *)
(* is the second DELETE of an id that was just deleted.                    *)
C11_DeleteOfMissing == [][DeleteOfMissing]_vars

(* one record was created and deleted with 204, a second DELETE of the     *)
(* same id has been answered 404                                           *)
C11_Witness ==
    /\ store = {} /\ seq = 2 /\ nReq = 3
    /\ \E s, t \in DOMAIN slots :
          /\ Deleted(s) /\ slots[s].id = "STU001"
          /\ Done(t) /\ slots[t].op = "delete" /\ slots[t].id = "STU001"
          /\ slots[t].resp.status = 404

Gets(s) == Finishes(s) /\ slots'[s].op = "get" /\ Reached(slots'[s])
Puts(s) == Finishes(s) /\ slots'[s].op = "put" /\ Reached(slots'[s])
Lists(s) == Finishes(s) /\ slots'[s].op = "list" /\ Reached(slots'[s])
Creates(s, id) ==
    /\ Finishes(s) /\ slots'[s].op = "post" /\ slots'[s].resp.status = 201
    /\ slots'[s].body.student_id.s = id

(* a 204 means exactly the record of that id left the store *)
DeleteRemovesOne ==
    \A s \in DOMAIN slots :
        (Deletes(s) /\ slots'[s].resp.status = 204) =>
            /\ \E r \in store : r.student_id = slots'[s].id /\ store' = store \ {r}
            /\ ~Has(store', slots'[s].id)

(* a student_id the store does not hold comes to be held only by a POST *)
GoneUntilCreated ==
    \A r \in store' : ~Has(store, r.student_id) => \E s \in DOMAIN slots : Creates(s, r.student_id)

NotListed ==
    \A s \in DOMAIN slots :
        (Lists(s) /\ slots'[s].resp.status = 200) =>
            \A i \in 1..Len(ListOf(slots'[s])) : Has(store, ListOf(slots'[s])[i].student_id)

GetOfMissing ==
    \A s \in DOMAIN slots :
        (Gets(s) /\ ~Has(store, slots'[s].id)) =>
            slots'[s].resp.status = 404 /\ store' = store

PutOfMissing ==
    \A s \in DOMAIN slots :
        (Puts(s) /\ ~Has(store, slots'[s].id)) =>
            slots'[s].resp.status = 404 /\ store' = store

(* the enrollment_year of the body is an integer, a string of digits, or absent *)
YearReadable(slot) == slot.body.enrollment_year.k \in {"num", "numstr", "undef"}

PutOfMissingReadable ==
    \A s \in DOMAIN slots :
        (Puts(s) /\ ~Has(store, slots'[s].id)) =>
            /\ slots'[s].resp.status = IF YearReadable(slots'[s]) THEN 404 ELSE 500
            /\ store' = store

-----------------------------------------------------------------------------
(* Updating *)

RowOf(st, id) == CHOOSE r \in st : r.student_id = id
Updates(s) == Puts(s) /\ slots'[s].resp.status = 200

(* a successful PUT leaves its department and year in the record, stamped  *)
(* with the clock's reading                                                *)
PutStores ==
    \A s \in DOMAIN slots :
        Updates(s) =>
            /\ Has(store', slots'[s].id)
            /\ RowOf(store', slots'[s].id).department = slots'[s].body.department.s
            /\ RowOf(store', slots'[s].id).enrollment_year = slots'[s].body.enrollment_year.n
            /\ RowOf(store', slots'[s].id).updated_at = clock

(* GET by id shows the department and year the record holds *)
GetReflects ==
    \A s \in DOMAIN slots :
        (Gets(s) /\ Has(store, slots'[s].id)) =>
            /\ slots'[s].resp.status = 200
            /\ slots'[s].resp.body.student_id = slots'[s].id
            /\ slots'[s].resp.body.department = RowOf(store, slots'[s].id).department
            /\ slots'[s].resp.body.enrollment_year = RowOf(store, slots'[s].id).enrollment_year

ModifiedAfterCreation ==
    \A s \in DOMAIN slots :
        Updates(s) =>
            RowOf(store', slots'[s].id).updated_at > RowOf(store', slots'[s].id).created_at

NotBeforeCreation == \A r \in store : r.updated_at >= r.created_at

Reads(s) == Finishes(s) /\ slots'[s].op \in {"list", "get", "health"}

(* the last-modified timestamp a successful PUT leaves is the clock's reading *)
PutStamps ==
    \A s \in DOMAIN slots :
        Updates(s) =>
            /\ RowOf(store', slots'[s].id).updated_at = clock
            /\ RowOf(store', slots'[s].id).updated_at >= RowOf(store, slots'[s].id).updated_at

PutAdvances ==
    \A s \in DOMAIN slots :
        Updates(s) =>
            RowOf(store', slots'[s].id).updated_at > RowOf(store, slots'[s].id).updated_at

(* GET list, GET by id and GET /health leave every record as it is *)
ReadsKeep == \A s \in DOMAIN slots : Reads(s) => store' = store /\ seq' = seq

PutFrame ==
    \A s \in DOMAIN slots :
        Updates(s) =>
            /\ Has(store, slots'[s].id) /\ Has(store', slots'[s].id)
            /\ store' \ {RowOf(store', slots'[s].id)} = store \ {RowOf(store, slots'[s].id)}
            /\ RowOf(store', slots'[s].id).id = RowOf(store, slots'[s].id).id
            /\ RowOf(store', slots'[s].id).created_at = RowOf(store, slots'[s].id).created_at
            /\ RowOf(store', slots'[s].id).password = RowOf(store, slots'[s].id).password

(* a PUT that is not answered 200 changes nothing *)
FailedPutKeeps ==
    \A s \in DOMAIN slots :
        (Finishes(s) /\ slots'[s].op = "put" /\ slots'[s].resp.status # 200) => store' = store

(* whatever happens, a record keeps the hash, student_id and created_at it *)
(* was created with                                                        *)
HashWrittenOnce ==
    \A r \in store, q \in store' :
        r.id = q.id =>
            /\ q.password = r.password /\ q.password.alg = "bcrypt"
            /\ q.student_id = r.student_id
            /\ q.created_at = r.created_at

(* C15: a PUT changes only name, email, department, enrollment year and    *)
(* the last-modified timestamp of the matching record; its id, student_id, *)
(* created_at and password hash are unchanged, every other record is       *)
(* unchanged, and the hash is written once, at creation.                   *)
C15_PutFrame == [][PutFrame /\ FailedPutKeeps /\ HashWrittenOnce]_vars

(* two students exist; STU001 has been renamed and still has its hash *)
C15_Witness ==
    /\ nReq = 3 /\ Cardinality(store) = 2
    /\ \E r \in store :
          /\ r.student_id = "STU001" /\ r.name = "Bob" /\ r.id = 1
          /\ r.password = Hash("secret", "salt1")
    /\ \E s \in DOMAIN slots :
          Done(s) /\ slots[s].op = "put" /\ slots[s].id = "STU001" /\ slots[s].resp.status = 200

PutFields(b) == {b.name, b.email, b.department, b.enrollment_year}
Partial(b) == Undef \in PutFields(b) /\ PutFields(b) # {Undef}

PartialUpdated ==
    \A s \in DOMAIN slots :
        (Puts(s) /\ Has(store, slots'[s].id) /\ Partial(slots'[s].body)) =>
            /\ slots'[s].resp.status = 200
            /\ slots'[s].resp.kind = "record"
            /\ slots'[s].resp.body.student_id = slots'[s].id

(* C16: a PUT on an existing record whose body carries only some of name,  *)
(* email, department and enrollment_year is answered 200 with the updated  *)
(* record.                                                                 *)
C16_Original == [][PartialUpdated]_vars

(* the body carries all four fields, each one the store can hold *)
Complete(b) ==
    /\ Undef \notin PutFields(b)
    /\ {b.name.k, b.email.k, b.department.k} = {"str"}
    /\ b.enrollment_year.k = "num"

OutOfRange(b) == ~YearOk(b.enrollment_year)

EmailTaken(st, id, b) == \E r \in st : r.student_id # id /\ r.email = b.email.s

StoresAnyYear ==
    \A s \in DOMAIN slots :
        (/\ Puts(s) /\ Has(store, slots'[s].id)
         /\ Complete(slots'[s].body) /\ OutOfRange(slots'[s].body)
         /\ ~EmailTaken(store, slots'[s].id, slots'[s].body)) =>
            /\ slots'[s].resp.status = 200
            /\ slots'[s].resp.body.enrollment_year = slots'[s].body.enrollment_year.n
            /\ RowOf(store', slots'[s].id).enrollment_year = slots'[s].body.enrollment_year.n

-----------------------------------------------------------------------------
(* Reading and updating by id *)

NotFoundBody == [error |-> "Student not found"]

(* the record as the API shows it: every column but password and updated_at *)
Shown(r) ==
    [id |-> r.id, student_id |-> r.student_id, name |-> r.name, email |-> r.email,
     department |-> r.department, enrollment_year |-> r.enrollment_year,
     created_at |-> r.created_at]

GetMissingIs404 ==
    \A s \in DOMAIN slots :
        (Gets(s) /\ ~Has(store, slots'[s].id)) =>
            /\ slots'[s].resp.status = 404 /\ slots'[s].resp.body = NotFoundBody
            /\ store' = store

PutMissingIs404 ==
    \A s \in DOMAIN slots :
        (Puts(s) /\ ~Has(store, slots'[s].id)) =>
            /\ slots'[s].resp.status = 404 /\ slots'[s].resp.body = NotFoundBody
            /\ store' = store

PutMissingIs404IfReadable ==
    \A s \in DOMAIN slots :
        (Puts(s) /\ ~Has(store, slots'[s].id)) =>
            /\ YearReadable(slots'[s]) =>
                  slots'[s].resp.status = 404 /\ slots'[s].resp.body = NotFoundBody
            /\ ~YearReadable(slots'[s]) =>
                  slots'[s].resp.status = 500 /\ slots'[s].resp.body = [error |-> "Internal server error"]
            /\ store' = store

GetPresentIs200 ==
    \A s \in DOMAIN slots :
        (Gets(s) /\ Has(store, slots'[s].id)) =>
            /\ slots'[s].resp.status = 200
            /\ slots'[s].resp.body = Shown(RowOf(store, slots'[s].id))
            /\ store' = store

Created201(s, id) == Inserted(s) /\ slots[s].body.student_id.s = id

(* a GET by id entered after the POST of that student_id was answered 201, *)
(* with the POST's response still at hand                                  *)
ReadsBack ==
    \A s, t \in DOMAIN slots :
        (Created201(s, Kept) /\ Gets(t) /\ slots'[t].id = Kept) =>
            /\ slots'[t].resp.status = 200
            /\ slots'[t].resp.body = slots[s].resp.body
            /\ slots'[t].resp.body.student_id = Kept

(* C19: after a POST answered 201, a GET by that student_id made before    *)
(* any update or delete of the record is answered 200 with the record the  *)
(* POST returned: the same id, student_id, name, email, department,        *)
(* enrollment_year and created_at.  (No PUT or DELETE of SpecRead names    *)
(* the student_id Kept; other records are updated and deleted meanwhile.)  *)
C19_ReadsBack == [][ReadsBack]_vars

(* the POST of STU001 was answered 201 at clock 1 and a GET of STU001 was  *)
(* answered next to it                                                     *)
C19_Witness ==
    \E s, t \in DOMAIN slots :
        /\ Created201(s, Kept) /\ slots[s].resp.body.created_at = 1
        /\ Done(t) /\ slots[t].op = "get" /\ slots[t].id = Kept
        /\ slots[t].resp.status = 200
        /\ slots[t].resp.body.id = slots[s].resp.body.id
        /\ slots[t].resp.body.created_at = 1

-----------------------------------------------------------------------------
(* The liveness probe *)

HealthAnswers ==
    \A s \in DOMAIN slots :
        (Finishes(s) /\ slots'[s].op = "health") =>
            /\ slots'[s].resp.status = 200
            /\ DOMAIN slots'[s].resp.body = {"status", "timestamp"}
            /\ slots'[s].resp.body.status = "healthy"
            /\ slots'[s].resp.body.timestamp = clock
            /\ store' = store /\ seq' = seq
            /\ \A t \in DOMAIN slots \ {s} : slots'[t] = slots[t]

(* whenever a request can be taken in, GET /health can be taken in and answered *)
HealthAvailable == \A s \in DOMAIN slots : Free(s) => ENABLED Health(s)

(* C20: GET /health is answered 200 with a body of status and timestamp in *)
(* every state, whether the store's queries succeed or fail and whatever   *)
(* else is in flight, and it never touches the store.                      *)
C20_Health == [](HealthAvailable) /\ [][HealthAnswers]_vars

(* a POST is waiting for its INSERT, nothing is stored yet, and GET        *)
(* /health has been answered 200 meanwhile                                 *)
C20_Witness ==
    \E s, t \in DOMAIN slots :
        /\ slots[s].op = "post" /\ slots[s].pc = "query" /\ store = {}
        /\ Done(t) /\ slots[t].op = "health" /\ slots[t].resp.status = 200
        /\ slots[t].resp.body.timestamp = 1

-----------------------------------------------------------------------------
(* Answering *)

InFlight(s) == slots[s].pc \in {"hash", "query"}

(* a response exists only once the invocation is over, and is never replaced *)
AnsweredWhenDone == \A s \in DOMAIN slots : slots[s].resp.kind # "none" <=> Done(s)
AnsweredOnce ==
    \A s \in DOMAIN slots : Done(s) => slots'[s].pc = "idle" \/ slots'[s] = slots[s]

(* a statement the store fails is caught: 500, and the table is as before *)
FailureCaught ==
    \A s \in DOMAIN slots :
        (Finishes(s) /\ slots'[s].logged # "") =>
            /\ slots'[s].resp.status = 500
            /\ slots'[s].resp.body = [error |-> "Internal server error"]
            /\ store' = store

(* whatever was answered before, the next request is taken in *)
KeepsServing == \A s \in DOMAIN slots : Free(s) => ENABLED GetStart(s, Kept)

FailuresAreErrorObjects ==
    \A s \in DOMAIN slots :
        (Done(s) /\ slots[s].op # "health" /\ slots[s].resp.status \in {400, 404, 500}) =>
            /\ slots[s].resp.kind = "error"
            /\ DOMAIN slots[s].resp.body = {"error"}

(* the same, of the responses the route handlers send *)
HandlerFailuresAreErrorObjects ==
    \A s \in DOMAIN slots :
        (Done(s) /\ slots[s].resp.status \in {400, 404, 500}
                 /\ slots[s].resp.kind # "html") =>
            /\ slots[s].resp.kind = "error"
            /\ DOMAIN slots[s].resp.body = {"error"}

(* C21: every request to the five /api/students operations eventually     *)
(* gets exactly one response, also when the store's statement fails: the   *)
(* failure is caught in the handler and answered 500, later requests are   *)
(* served, and every failure response (400, 404, 500) is a JSON object     *)
(* with the single field error.                                            *)
C21_Original ==
    /\ \A s \in 1..NumSlots : InFlight(s) ~> Done(s)
    /\ [](AnsweredWhenDone /\ KeepsServing /\ FailuresAreErrorObjects)
    /\ [][AnsweredOnce /\ FailureCaught]_vars

(* what remains true: all of the above for the responses of the handlers *)
HandlersAnswer ==
    /\ \A s \in 1..NumSlots : InFlight(s) ~> Done(s)
    /\ [](AnsweredWhenDone /\ KeepsServing /\ HandlerFailuresAreErrorObjects)
    /\ [][AnsweredOnce /\ FailureCaught]_vars

-----------------------------------------------------------------------------
(* Concurrency *)

Answered == {s \in DOMAIN slots : Done(s)}

(* the orders in which the answered requests can be put one after another *)
Orders ==
    {q \in [1..Cardinality(Answered) -> Answered] :
        \A i, j \in 1..Cardinality(Answered) : i # j => q[i] # q[j]}

(* the tables and sequences the first k requests of the order q can leave  *)
(* when they are run one at a time from the empty table, at some readings  *)
(* of the clock, and are answered as they were answered                    *)
RECURSIVE SeriallyAfter(_, _)
SeriallyAfter(q, k) ==
    IF k = 0 THEN {[store |-> {}, seq |-> 1]}
    ELSE {[store |-> o.store, seq |-> o.seq] :
            o \in {x \in UNION {Serve(slots[q[k]].op, slots[q[k]].id, slots[q[k]].body,
                                      before.store, before.seq, now) :
                                   before \in SeriallyAfter(q, k - 1), now \in 0..clock} :
                      x.resp = slots[q[k]].resp}}

Serializable ==
    \E q \in Orders : [store |-> store, seq |-> seq] \in SeriallyAfter(q, Cardinality(Answered))

PutAndDelete(status) ==
    \E s, t, u \in DOMAIN slots :
        /\ Created201(s, Kept)
        /\ Done(t) /\ slots[t].op = "put" /\ slots[t].id = Kept /\ slots[t].resp.status = status
        /\ Deleted(u) /\ slots[u].id = Kept

-----------------------------------------------------------------------------
(* The client's list *)

(* every request the client issued is answered and its handler has run *)
Quiet == \A s \in DOMAIN slots : slots[s].pc = "idle"

Displayed == {students[i].student_id : i \in 1..Len(students)}
Held == {r.student_id : r \in store}

Mirrors == Quiet => Displayed = Held /\ Len(students) = Cardinality(store)

DeletesConfirmed ==
    \A s \in DOMAIN slots :
        slots[s].op = "delete" => calls[s].handler = "delete" /\ calls[s].confirmed

(* C23: the client sends no DELETE unless the user confirmed the prompt    *)
(* for that student, and its list mirrors the server: once every request   *)
(* it issued (the first fetch, creates, deletes) is completed, several at  *)
(* once included, the list shown holds exactly the students the server     *)
(* holds: no deleted student reappears, no created student is lost.        *)
C23_Original == Mirrors /\ DeletesConfirmed

====
